---- MODULE Spec2Model ----
(***************************************************************************)
(* Model of norm_name.py: the batch renamer that rewrites file names to    *)
(* "<group>_<model>_DI<numeral>GE DIAN".                                   *)
(*                                                                         *)
(* A Python str is a sequence of characters.  An ASCII character is the    *)
(* one-character string of itself; a non-ASCII character is written by a   *)
(* name of several capital letters (so it differs from every ASCII         *)
(* character):                                                             *)
(*   DI U+7B2C  GE U+4E2A  DIAN U+70B9  WEI_P U+4F4D                        *)
(*   EMDASH U+2014  ENDASH U+2013                                          *)
(*   LING U+96F6  LING_O U+3007  YI U+4E00  ER U+4E8C  LIANG U+4E24         *)
(*   SAN U+4E09  SI U+56DB  WU U+4E94  LIU U+516D  QI U+4E03  BA U+516B     *)
(*   JIU U+4E5D  YI_F U+58F9  ER_F U+8D30  ER_T U+8CB3  SAN_F U+53C1        *)
(*   SI_F U+8086  WU_F U+4F0D  LIU_F U+9646  LIU_T U+9678  QI_F U+67D2      *)
(*   BA_F U+634C  JIU_F U+7396  SHI U+5341  SHI_F U+62FE  BAI U+767E        *)
(*   BAI_F U+4F70  QIAN U+5343  QIAN_F U+4EDF                               *)
(*   XIAO U+5C0F  MI U+7C73  JIA U+52A0  XING U+661F  PING U+82F9           *)
(*   GUO U+679C  RONG U+8363  YAO U+8000  HONG U+7EA2  HUA U+534E           *)
(*   WEI U+4E3A  WEI_N U+672A  ZHI U+77E5  JI U+673A  XING_T U+578B         *)
(***************************************************************************)
EXTENDS Integers, Sequences, FiniteSets

VARIABLES
    pc,                          \* position of the running code
    MODEL_TO_GROUP,              \* dict alias -> group (set of <<alias, group>>)
    NORMALIZED_MODEL_TO_GROUP,   \* dict in insertion order: <<key, group, alias>>
    GROUP_TO_CANONICAL_MODEL,    \* dict group -> first alias (set of pairs)
    gi,                          \* init_group_index: position in PHONE_GROUPS.items()
    arg,                         \* argument of the function under call
    ret,                         \* its result
    fs,                          \* the target directory: a set of <<name, kind>>
    caseInsensitive,             \* the file system folds case in look-ups
    todo,                        \* files iterdir() has not yielded yet
    plans,                       \* list of <<src, dst>>
    k,                           \* apply loop: index of the next plan entry
    count,                       \* apply loop: successful renames
    outcomes,                    \* per attempted entry: "ok" or "failed"
    run,                         \* 1 on the first run of the program, 2 on the second
    prev                         \* plans and outcomes of the first run, once it is over

vars == <<pc, MODEL_TO_GROUP, NORMALIZED_MODEL_TO_GROUP, GROUP_TO_CANONICAL_MODEL,
          gi, arg, ret, fs, caseInsensitive, todo, plans, k, count, outcomes, run, prev>>

indexVars == <<MODEL_TO_GROUP, NORMALIZED_MODEL_TO_GROUP, GROUP_TO_CANONICAL_MODEL, gi>>

callVars == <<arg, ret>>

mainVars == <<fs, caseInsensitive, todo, plans, k, count, outcomes, run, prev>>

\* F applied to the value of v: Python evaluates an expression once, when it is
\* assigned or passed, while a LET definition is evaluated at each of its uses
ByValue(v, F(_)) == CHOOSE r \in {F(x) : x \in {v}} : TRUE

\* Python's None, and a value that is not None
None == [some |-> FALSE]

Some(v) == [some |-> TRUE, val |-> v]

(***************************************************************************)
(* Characters and the str methods the program uses                         *)
(***************************************************************************)
UpperCase ==
    <<"A", "B", "C", "D", "E", "F", "G", "H", "I", "J", "K", "L", "M",
      "N", "O", "P", "Q", "R", "S", "T", "U", "V", "W", "X", "Y", "Z">>

LowerCase ==
    <<"a", "b", "c", "d", "e", "f", "g", "h", "i", "j", "k", "l", "m",
      "n", "o", "p", "q", "r", "s", "t", "u", "v", "w", "x", "y", "z">>

\* str.lower() (and str.casefold(), the same on these characters) of one character
LowerChar(c) ==
    IF \E i \in 1..26 : UpperCase[i] = c
    THEN LowerCase[CHOOSE i \in 1..26 : UpperCase[i] = c]
    ELSE c

Lower(s) == [i \in 1..Len(s) |-> LowerChar(s[i])]

\* \s of the regular expressions, str.isspace()
IsSpace(c) == c \in {" ", "\t"}

Digits == <<"0", "1", "2", "3", "4", "5", "6", "7", "8", "9">>

\* \d of the regular expressions, str.isdigit() on one character
IsDigitChar(c) == \E i \in 1..10 : Digits[i] = c

DigitValue(c) == (CHOOSE i \in 1..10 : Digits[i] = c) - 1

\* s[i:j] with 1-based inclusive bounds; empty when j < i
Slice(s, i, j) == IF j < i THEN << >> ELSE SubSeq(s, i, j)

RECURSIVE LStripLen(_, _)
\* number of white-space characters of s in a row from position i on
LStripLen(s, i) ==
    IF i <= Len(s) /\ IsSpace(s[i]) THEN 1 + LStripLen(s, i + 1) ELSE 0

RECURSIVE RStripPos(_, _)
\* last position <= j of s that is not white space (0 if none)
RStripPos(s, j) ==
    IF j >= 1 /\ IsSpace(s[j]) THEN RStripPos(s, j - 1) ELSE j

\* str.strip()
Strip(s) == Slice(s, 1 + LStripLen(s, 1), RStripPos(s, Len(s)))

\* needle in hay (Python's substring test)
Contains(hay, needle) ==
    \E i \in 0..(Len(hay) - Len(needle)) :
        \A j \in 1..Len(needle) : hay[i + j] = needle[j]

RECURSIVE StrOfNat(_)
\* str(n) for n >= 0
StrOfNat(n) ==
    IF n < 10 THEN <<Digits[n + 1]>> ELSE StrOfNat(n \div 10) \o <<Digits[(n % 10) + 1]>>

RECURSIVE IntOfDigits(_, _)
\* int(s) for a string of decimal digits: value of s[1..j]
IntOfDigits(s, j) ==
    IF j = 0 THEN 0 ELSE 10 * IntOfDigits(s, j - 1) + DigitValue(s[j])

(***************************************************************************)
(* Numerals: NUM_MAP, UNIT_MAP, INT_TO_CN, cn2int, int2cn                  *)
(***************************************************************************)
NUM_MAP ==
    { <<"LING", 0>>, <<"LING_O", 0>>,
      <<"YI", 1>>, <<"ER", 2>>, <<"LIANG", 2>>, <<"SAN", 3>>, <<"SI", 4>>, <<"WU", 5>>,
      <<"LIU", 6>>, <<"QI", 7>>, <<"BA", 8>>, <<"JIU", 9>>,
      <<"YI_F", 1>>, <<"ER_F", 2>>, <<"ER_T", 2>>, <<"SAN_F", 3>>, <<"SI_F", 4>>,
      <<"WU_F", 5>>, <<"LIU_F", 6>>, <<"LIU_T", 6>>, <<"QI_F", 7>>, <<"BA_F", 8>>,
      <<"JIU_F", 9>> }

UNIT_MAP ==
    { <<"SHI", 10>>, <<"SHI_F", 10>>, <<"BAI", 100>>, <<"BAI_F", 100>>,
      <<"QIAN", 1000>>, <<"QIAN_F", 1000>> }

INT_TO_CN == <<"LING", "YI", "ER", "SAN", "SI", "WU", "LIU", "QI", "BA", "JIU">>

\* key in d, d[key] for a dict kept as a set of <<key, value>> pairs
InDict(d, key) == \E e \in d : e[1] = key

Get(d, key) == (CHOOSE e \in d : e[1] = key)[2]

RECURSIVE cn2intLoopNoElision(_, _, _, _)
\* cn2intLoop without the rule for a unit that follows no digit
cn2intLoopNoElision(s, i, total, current) ==
    IF i > Len(s) THEN Some(total + current)
    ELSE IF InDict(NUM_MAP, s[i])
         THEN cn2intLoopNoElision(s, i + 1, total, Get(NUM_MAP, s[i]))
    ELSE IF InDict(UNIT_MAP, s[i])
         THEN cn2intLoopNoElision(s, i + 1, total + current * Get(UNIT_MAP, s[i]), 0)
    ELSE IF IsSpace(s[i]) THEN cn2intLoopNoElision(s, i + 1, total, current)
    ELSE None

RECURSIVE cn2intLoop(_, _, _, _)
\* the for loop of cn2int from character i on, with the locals total and current
cn2intLoop(s, i, total, current) ==
    IF i > Len(s) THEN Some(total + current)
    ELSE IF InDict(NUM_MAP, s[i]) THEN cn2intLoop(s, i + 1, total, Get(NUM_MAP, s[i]))
    ELSE IF InDict(UNIT_MAP, s[i])
         THEN cn2intLoop(s, i + 1,
                         total + (IF current = 0 THEN 1 ELSE current) * Get(UNIT_MAP, s[i]),
                         0)
    ELSE IF IsSpace(s[i]) THEN cn2intLoop(s, i + 1, total, current)
    ELSE None

cn2int(text) ==
    ByValue(Strip(text), LAMBDA s :
        IF s = << >> THEN None
        ELSE IF \A i \in 1..Len(s) : IsDigitChar(s[i]) THEN Some(IntOfDigits(s, Len(s)))
        ELSE cn2intLoop(s, 1, 0, 0))

RECURSIVE int2cn(_)
int2cn(n) ==
    IF n = 0 THEN <<"LING">>
    ELSE IF 0 < n /\ n < 10 THEN <<INT_TO_CN[n + 1]>>
    ELSE IF 10 <= n /\ n < 100
         THEN (IF n \div 10 = 1 THEN <<"SHI">> ELSE <<INT_TO_CN[(n \div 10) + 1], "SHI">>)
              \o (IF n % 10 # 0 THEN <<INT_TO_CN[(n % 10) + 1]>> ELSE << >>)
    ELSE IF 100 <= n /\ n < 1000
         THEN <<INT_TO_CN[(n \div 100) + 1], "BAI">>
              \o (IF n % 100 # 0
                  THEN (IF n % 100 < 10 THEN <<"LING">> ELSE << >>) \o int2cn(n % 100)
                  ELSE << >>)
    ELSE StrOfNat(n)

(***************************************************************************)
(* sanitize_component and normalize_model_key                              *)
(***************************************************************************)
\* INVALID_CHARS_RE: [<>:"/\\|?*]
INVALID_CHARS == {"<", ">", ":", "\"", "/", "\\", "|", "?", "*"}

\* the class [\s_\-EMDASH ENDASH] of the two regular expressions
IsConnector(c) == IsSpace(c) \/ c \in {"_", "-", "EMDASH", "ENDASH"}

\* INVALID_CHARS_RE.sub('-', text)
ReplaceInvalid(s) == [i \in 1..Len(s) |-> IF s[i] \in INVALID_CHARS THEN "-" ELSE s[i]]

RECURSIVE CollapseSpaces(_, _)
\* re.sub(r'\s+', ' ', text): the result for s[1..j]
CollapseSpaces(s, j) ==
    IF j = 0 THEN << >>
    ELSE IF ~IsSpace(s[j]) THEN Append(CollapseSpaces(s, j - 1), s[j])
    ELSE IF j > 1 /\ IsSpace(s[j - 1]) THEN CollapseSpaces(s, j - 1)
    ELSE Append(CollapseSpaces(s, j - 1), " ")

RECURSIVE LeadingConnectors(_, _)
LeadingConnectors(s, i) ==
    IF i <= Len(s) /\ IsConnector(s[i]) THEN 1 + LeadingConnectors(s, i + 1) ELSE 0

RECURSIVE LastNonConnector(_, _)
LastNonConnector(s, j) ==
    IF j >= 1 /\ IsConnector(s[j]) THEN LastNonConnector(s, j - 1) ELSE j

\* re.sub(r'^[\s_\-..]+|[\s_\-..]+$', '', text)
StripConnectors(s) == Slice(s, 1 + LeadingConnectors(s, 1), LastNonConnector(s, Len(s)))

RECURSIVE RStripSpaceDot(_, _)
\* text.rstrip(' .'): the last position kept
RStripSpaceDot(s, j) ==
    IF j >= 1 /\ s[j] \in {" ", "."} THEN RStripSpaceDot(s, j - 1) ELSE j

sanitize_component(text) ==
    ByValue(ReplaceInvalid(text), LAMBDA t1 :
    ByValue(CollapseSpaces(t1, Len(t1)), LAMBDA t2 :
    ByValue(StripConnectors(t2), LAMBDA t3 :
        Slice(t3, 1, RStripSpaceDot(t3, Len(t3))))))

RECURSIVE RemoveConnectors(_, _)
\* re.sub(r'[\s_\-..]+', '', s): the result for s[1..j]
RemoveConnectors(s, j) ==
    IF j = 0 THEN << >>
    ELSE IF IsConnector(s[j]) THEN RemoveConnectors(s, j - 1)
    ELSE Append(RemoveConnectors(s, j - 1), s[j])

normalize_model_key(s) ==
    ByValue(Strip(Lower(s)), LAMBDA t : RemoveConnectors(t, Len(t)))

(***************************************************************************)
(* The group table and its index                                           *)
(***************************************************************************)
PHONE_GROUPS ==
    << <<<<"1", "-", "1">>, <<<<"XIAO", "MI", "1", "5">>, <<"x", "i", "a", "o", "m", "i", "1", "5">>>>>>,
       <<<<"1", "-", "2">>, <<<<"YI", "JIA", "1", "3">>, <<"o", "n", "e", "p", "l", "u", "s", "1", "3">>>>>>,
       <<<<"1", "-", "3">>, <<<<"o", "p", "p", "o", " ", "f", "i", "n", "d", " ", "x", "8">>, <<"o", "p", "p", "o", "f", "i", "n", "d", "x", "8", "p", "r", "o">>, <<"f", "i", "n", "d", "x", "8", "p", "r", "o">>>>>>,
       <<<<"1", "-", "4">>, <<<<"v", "i", "v", "o", " ", "i", "q", "o", "o", "1", "3">>, <<"v", "i", "v", "o", "i", "q", "o", "o", "1", "3">>, <<"i", "q", "o", "o", "1", "3">>>>>>,
       <<<<"1", "-", "5">>, <<<<"SAN", "XING", "s", "2", "4">>, <<"s", "a", "m", "s", "u", "n", "g", "s", "2", "4">>>>>>,
       <<<<"2", "-", "1">>, <<<<"v", "i", "v", "o", " ", "x", "2", "0", "0", " ", "p", "r", "o">>, <<"v", "i", "v", "o", "x", "2", "0", "0", "p", "r", "o">>, <<"x", "2", "0", "0", "p", "r", "o">>>>>>,
       <<<<"2", "-", "2">>, <<<<"PING", "GUO", "1", "5">>, <<"i", "p", "h", "o", "n", "e", "1", "5">>>>>>,
       <<<<"2", "-", "3">>, <<<<"RONG", "YAO", "m", "a", "g", "i", "c", "7">>, <<"h", "o", "n", "o", "r", "m", "a", "g", "i", "c", "7">>, <<"m", "a", "g", "i", "c", "7">>>>>>,
       <<<<"2", "-", "4">>, <<<<"HONG", "MI", "k", "8", "0", "p", "r", "o">>, <<"r", "e", "d", "m", "i", "k", "8", "0", "p", "r", "o">>, <<"k", "8", "0", "p", "r", "o">>>>>>,
       <<<<"2", "-", "5">>, <<<<"HUA", "WEI", "p", "4", "0", "p", "r", "o", "p", "l", "u", "s">>, <<"h", "u", "a", "w", "e", "i", "p", "4", "0", "p", "r", "o", "p", "l", "u", "s">>, <<"p", "4", "0", "p", "r", "o", "p", "l", "u", "s">>>>>>,
       <<<<"3", "-", "1">>, <<<<"HUA", "WEI", "m", "a", "t", "e", "6", "0">>, <<"h", "u", "a", "w", "e", "i", "m", "a", "t", "e", "6", "0">>, <<"m", "a", "t", "e", "6", "0">>>>>>,
       <<<<"3", "-", "2">>, <<<<"YI", "JIA", "a", "c", "e", "3">>, <<"o", "n", "e", "p", "l", "u", "s", "a", "c", "e", "3">>, <<"a", "c", "e", "3">>>>>>,
       <<<<"3", "-", "3">>, <<<<"XIAO", "MI", "1", "4">>, <<"x", "i", "a", "o", "m", "i", "1", "4">>>>>>,
       <<<<"3", "-", "4">>, <<<<"RONG", "YAO", "m", "a", "g", "i", "c", "6">>, <<"h", "o", "n", "o", "r", "m", "a", "g", "i", "c", "6">>, <<"m", "a", "g", "i", "c", "6">>>>>>,
       <<<<"3", "-", "5">>, <<<<"RONG", "YAO", "m", "a", "g", "i", "c", "v", "s", "3">>, <<"h", "o", "n", "o", "r", "m", "a", "g", "i", "c", "v", "s", "3">>, <<"m", "a", "g", "i", "c", "v", "s", "3">>>>>>,
       <<<<"4", "-", "1">>, <<<<"HUA", "WEI", "p", "6", "0">>, <<"h", "u", "a", "w", "e", "i", "p", "6", "0">>, <<"p", "6", "0">>>>>>,
       <<<<"4", "-", "2">>, <<<<"HUA", "WEI", "n", "o", "v", "a", "1", "3">>, <<"h", "u", "a", "w", "e", "i", "n", "o", "v", "a", "1", "3">>, <<"n", "o", "v", "a", "1", "3">>>>>>,
       <<<<"4", "-", "3">>, <<<<"HUA", "WEI", "m", "a", "t", "e", "5", "0", "p", "r", "o">>, <<"h", "u", "a", "w", "e", "i", "m", "a", "t", "e", "5", "0", "p", "r", "o">>, <<"m", "a", "t", "e", "5", "0", "p", "r", "o">>>>>>,
       <<<<"4", "-", "4">>, <<<<"HUA", "WEI", "n", "o", "v", "a", "1", "4", "p", "r", "o">>, <<"h", "u", "a", "w", "e", "i", "n", "o", "v", "a", "1", "4", "p", "r", "o">>, <<"n", "o", "v", "a", "1", "4", "p", "r", "o">>>>>>,
       <<<<"4", "-", "5">>, <<<<"HUA", "WEI", "n", "o", "v", "a", "1", "4", "u", "l", "t", "r", "a">>, <<"h", "u", "a", "w", "e", "i", "n", "o", "v", "a", "1", "4", "u", "l", "t", "r", "a">>, <<"n", "o", "v", "a", "1", "4", "u", "l", "t", "r", "a">>>>>>,
       <<<<"5", "-", "1">>, <<<<"HUA", "WEI", "p", "7", "0", "p", "r", "o">>, <<"h", "u", "a", "w", "e", "i", "p", "7", "0", "p", "r", "o">>, <<"p", "7", "0", "p", "r", "o">>>>>>,
       <<<<"5", "-", "2">>, <<<<"HUA", "WEI", "m", "a", "t", "e", "x", "5">>, <<"h", "u", "a", "w", "e", "i", "m", "a", "t", "e", "x", "5">>, <<"m", "a", "t", "e", "x", "5">>>>>>,
       <<<<"5", "-", "3">>, <<<<"v", "i", "v", "o", " ", "s", "1", "9", " ", "p", "r", "o">>, <<"v", "i", "v", "o", "s", "1", "9", "p", "r", "o">>, <<"s", "1", "9", "p", "r", "o">>>>>>,
       <<<<"5", "-", "4">>, <<<<"v", "i", "v", "o", " ", "x", "1", "0", "0", " ", "p", "r", "o">>, <<"v", "i", "v", "o", "x", "1", "0", "0", "p", "r", "o">>, <<"x", "1", "0", "0", "p", "r", "o">>>>>>,
       <<<<"5", "-", "5">>, <<<<"o", "p", "p", "o", " ", "f", "i", "n", "d", " ", "x", "7">>, <<"o", "p", "p", "o", "f", "i", "n", "d", "x", "7">>, <<"f", "i", "n", "d", "x", "7">>>>>>,
       <<<<"5", "-", "6">>, <<<<"o", "p", "p", "o", " ", "f", "i", "n", "d", " ", "n", "3">>, <<"o", "p", "p", "o", "f", "i", "n", "d", "n", "3">>, <<"f", "i", "n", "d", "n", "3">>>>>> >>

\* d[key] = value on a dict kept as a set of <<key, value>> pairs
DictPut(d, key, value) == {e \in d : e[1] # key} \cup {<<key, value>>}

\* position of key in an insertion-ordered dict of <<key, group, alias>>, 0 if absent
KeyPos(d, key) ==
    IF \E i \in 1..Len(d) : d[i][1] = key
    THEN CHOOSE i \in 1..Len(d) : d[i][1] = key
    ELSE 0

\* d[key] = (group, alias): a present key keeps its place, a new key goes last
OrderedPut(d, key, group, alias) ==
    IF KeyPos(d, key) = 0 THEN Append(d, <<key, group, alias>>)
    ELSE [d EXCEPT ![KeyPos(d, key)] = <<key, group, alias>>]

\* lines 73-75: the first alias of the group becomes its canonical model
SetCanonical(g2c, group, aliases) ==
    IF aliases # << >> THEN DictPut(g2c, group, Strip(aliases[1])) ELSE g2c

\* lines 77-80: MODEL_TO_GROUP after one alias of the inner loop
AliasIntoExact(m2g, group, alias) ==
    IF Strip(alias) = << >> THEN m2g ELSE DictPut(m2g, Strip(alias), group)

\* AliasIntoNormalized with the alias itself as the key
AliasIntoNormalizedRawKey(n2g, group, alias) ==
    IF Strip(alias) = << >> THEN n2g
    ELSE OrderedPut(n2g, Strip(alias), group, Strip(alias))

\* lines 77-81: NORMALIZED_MODEL_TO_GROUP after one alias of the inner loop
AliasIntoNormalized(n2g, group, alias) ==
    IF Strip(alias) = << >> THEN n2g
    ELSE OrderedPut(n2g, normalize_model_key(Strip(alias)), group, Strip(alias))

\* the body of the inner loop (lines 77-81) on the dicts idx
AliasStep(idx, group, alias) ==
    [idx EXCEPT !.m2g = AliasIntoExact(@, group, alias),
                !.n2g = AliasIntoNormalized(@, group, alias)]

RECURSIVE AliasLoop(_, _, _, _)
\* for alias in aliases, from the ai-th alias on
AliasLoop(idx, group, aliases, ai) ==
    IF ai > Len(aliases) THEN idx
    ELSE AliasLoop(AliasStep(idx, group, aliases[ai]), group, aliases, ai + 1)

\* one iteration of the outer loop (lines 72-81), on the item at position i
GroupStep(idx, i) ==
    AliasLoop([idx EXCEPT !.g2c = SetCanonical(@, PHONE_GROUPS[i][1], PHONE_GROUPS[i][2])],
              PHONE_GROUPS[i][1], PHONE_GROUPS[i][2], 1)

\* lines 69-71: the three dicts cleared
EmptyIndex == [m2g |-> {}, n2g |-> << >>, g2c |-> {}]

(***************************************************************************)
(* find_group_for_model                                                    *)
(***************************************************************************)
RECURSIVE FuzzyLoopLastWins(_, _, _)
\* FuzzyLoop with >= for >: among the longest keys the last one wins
FuzzyLoopLastWins(key, i, best) ==
    IF i > Len(NORMALIZED_MODEL_TO_GROUP) THEN best
    ELSE LET e == NORMALIZED_MODEL_TO_GROUP[i]
         IN  IF Contains(key, e[1]) \/ Contains(e[1], key)
             THEN IF best = None \/ Len(e[1]) >= best.val[3]
                  THEN FuzzyLoopLastWins(key, i + 1, Some(<<e[2], e[3], Len(e[1])>>))
                  ELSE FuzzyLoopLastWins(key, i + 1, best)
             ELSE FuzzyLoopLastWins(key, i + 1, best)

RECURSIVE FuzzyLoop(_, _, _)
\* the for loop of lines 96-100 from entry i on; best is None or
\* Some(<<group, alias, length of the alias key>>)
FuzzyLoop(key, i, best) ==
    IF i > Len(NORMALIZED_MODEL_TO_GROUP) THEN best
    ELSE LET e == NORMALIZED_MODEL_TO_GROUP[i]
         IN  IF Contains(key, e[1]) \/ Contains(e[1], key)
             THEN IF best = None \/ Len(e[1]) > best.val[3]
                  THEN FuzzyLoop(key, i + 1, Some(<<e[2], e[3], Len(e[1])>>))
                  ELSE FuzzyLoop(key, i + 1, best)
             ELSE FuzzyLoop(key, i + 1, best)

\* the result is <<Some(group), Some(alias)>> or <<None, None>>
find_group_for_model(model_text) ==
    ByValue(normalize_model_key(model_text), LAMBDA key :
        LET pos == KeyPos(NORMALIZED_MODEL_TO_GROUP, key)
        IN  IF pos # 0
            THEN <<Some(NORMALIZED_MODEL_TO_GROUP[pos][2]),
                   Some(NORMALIZED_MODEL_TO_GROUP[pos][3])>>
            ELSE ByValue(FuzzyLoop(key, 1, None), LAMBDA best :
                    IF best # None THEN <<Some(best.val[1]), Some(best.val[2])>>
                    ELSE <<None, None>>))

(***************************************************************************)
(* PATTERN and PATTERN.search                                              *)
(***************************************************************************)
\* the class of the Chinese branch of the group num
CN_NUMERALS ==
    {"LING", "LING_O", "LIANG", "YI", "ER", "SAN", "SI", "WU", "LIU", "QI", "BA", "JIU",
     "YI_F", "ER_F", "ER_T", "SAN_F", "SI_F", "WU_F", "LIU_F", "LIU_T", "QI_F", "BA_F",
     "JIU_F", "SHI", "SHI_F", "BAI", "BAI_F", "QIAN", "QIAN_F"}

InClass(cls, c) ==
    CASE cls = "space" -> IsSpace(c)
      [] cls = "dash"  -> c \in {"-", "EMDASH"}
      [] cls = "digit" -> IsDigitChar(c)
      [] cls = "cn"    -> c \in CN_NUMERALS

RECURSIVE Run(_, _, _)
\* length of the longest run of characters of the class from position i on
Run(cls, s, i) ==
    IF i <= Len(s) /\ InClass(cls, s[i]) THEN 1 + Run(cls, s, i + 1) ELSE 0

At(s, i) == IF 1 <= i /\ i <= Len(s) THEN s[i] ELSE "<end>"

\* hi, hi - 1, ..., lo: the order in which a greedy quantifier gives characters back
Descending(hi, lo) == [i \in 1..(hi - lo + 1) |-> hi - i + 1]

RECURSIVE Flatten(_, _)
\* the concatenation of ss[i], ss[i + 1], ...
Flatten(ss, i) == IF i > Len(ss) THEN << >> ELSE ss[i] \o Flatten(ss, i + 1)

\* \s* DI \s* (?P<num>(\d+|[..]+)) \s* (?:GE)? \s* DIAN tried right after position e:
\* None, or Some(<<first, last>>), the positions of the group num.  The tail
\* (?:WEI_P)? (?:\s*.*)? $ matches whatever follows.
MatchMarker(s, e) ==
    ByValue(e + 1 + Run("space", s, e + 1), LAMBDA a :
    ByValue(a + 1 + Run("space", s, a + 1), LAMBDA b :
    ByValue(IF IsDigitChar(At(s, b)) THEN Run("digit", s, b) ELSE Run("cn", s, b), LAMBDA len :
    ByValue(b + len + Run("space", s, b + len), LAMBDA c :
    ByValue(IF At(s, c) = "GE" THEN c + 1 ELSE c, LAMBDA d :
    ByValue(d + Run("space", s, d), LAMBDA f :
        IF At(s, a) = "DI" /\ len > 0 /\ At(s, f) = "DIAN"
        THEN Some(<<b, b + len - 1>>)
        ELSE None))))))

\* (?P<model>.+?) started after q characters: the last position of the shortest
\* model after which the marker matches, 0 if there is none
ModelEnd(s, q) ==
    IF \E e \in (q + 1)..Len(s) : MatchMarker(s, e) # None
    THEN CHOOSE e \in (q + 1)..Len(s) :
            /\ MatchMarker(s, e) # None
            /\ \A e2 \in (q + 1)..(e - 1) : MatchMarker(s, e2) = None
    ELSE 0

\* (?:[-EMDASH]{2,}|EMDASH|---) tried after i characters: the numbers of
\* characters consumed up to the end of the separator, in the order the
\* engine tries them
SeparatorEnds(s, i) ==
    (IF Run("dash", s, i + 1) >= 2 THEN Descending(i + Run("dash", s, i + 1), i + 2) ELSE << >>)
    \o (IF At(s, i + 1) = "EMDASH" THEN <<i + 1>> ELSE << >>)
    \o (IF At(s, i + 1) = "-" /\ At(s, i + 2) = "-" /\ At(s, i + 3) = "-"
        THEN <<i + 3>> ELSE << >>)

\* the optional prefix ^(?:.*?(?:sep)\s*)? : the numbers of characters it may
\* consume, in the order the engine tries them: .*? takes i = 0, 1, ...
\* characters, then a separator, then \s* as much white space as it can,
\* giving it back one by one; last of all the prefix is left out (0)
PrefixEnds(s) ==
    Flatten([i \in 1..Len(s) |->
                Flatten([j \in 1..Len(SeparatorEnds(s, i - 1)) |->
                            Descending(SeparatorEnds(s, i - 1)[j]
                                         + Run("space", s, SeparatorEnds(s, i - 1)[j] + 1),
                                       SeparatorEnds(s, i - 1)[j])], 1)], 1)
    \o <<0>>

\* PATTERN.search(basename): None, or Some of the groups model and num
PATTERN_search(basename) ==
    ByValue(basename, LAMBDA s :
    ByValue(PrefixEnds(s), LAMBDA qs :
    ByValue([n \in 1..Len(qs) |-> ModelEnd(s, qs[n])], LAMBDA ends :
        IF \A n \in 1..Len(qs) : ends[n] = 0 THEN None
        ELSE LET n == CHOOSE n \in 1..Len(qs) :
                          ends[n] # 0 /\ \A n2 \in 1..(n - 1) : ends[n2] = 0
                 m == MatchMarker(s, ends[n]).val
             IN  Some([model |-> Slice(s, qs[n] + 1, ends[n]), num |-> Slice(s, m[1], m[2])]))))

(***************************************************************************)
(* build_new_name                                                          *)
(***************************************************************************)
\* build_new_name that keeps the spelling found in the name when a group is found
build_new_nameKeepsSpelling(basename) ==
    ByValue(PATTERN_search(basename), LAMBDA m :
        IF m = None THEN None
        ELSE ByValue(sanitize_component(Strip(m.val.model)), LAMBDA model :
             IF model = << >> THEN None
             ELSE ByValue(cn2int(Strip(m.val.num)), LAMBDA n :
                  IF n = None THEN None
                  ELSE ByValue(find_group_for_model(model)[1], LAMBDA group_id :
                       Some((IF group_id # None THEN group_id.val \o <<"_">> ELSE << >>)
                            \o model \o <<"_", "DI">> \o int2cn(n.val)
                            \o <<"GE", "DIAN">>)))))

build_new_name(basename) ==
    ByValue(PATTERN_search(basename), LAMBDA m :
        IF m = None THEN None
        ELSE ByValue(sanitize_component(Strip(m.val.model)), LAMBDA model :
             IF model = << >> THEN None
             ELSE ByValue(cn2int(Strip(m.val.num)), LAMBDA n :
                  IF n = None THEN None
                  ELSE ByValue(find_group_for_model(model)[1], LAMBDA group_id :
                       LET num_cn == int2cn(n.val)
                           prefix == IF group_id # None THEN group_id.val \o <<"_">> ELSE << >>
                           final_model ==
                               IF group_id # None
                                  /\ InDict(GROUP_TO_CANONICAL_MODEL, group_id.val)
                                  /\ Get(GROUP_TO_CANONICAL_MODEL, group_id.val) # << >>
                                  /\ sanitize_component(Get(GROUP_TO_CANONICAL_MODEL,
                                                            group_id.val)) # << >>
                               THEN sanitize_component(Get(GROUP_TO_CANONICAL_MODEL,
                                                           group_id.val))
                               ELSE model
                       IN  Some(prefix \o final_model \o <<"_", "DI">> \o num_cn
                                \o <<"GE", "DIAN">>)))))

(***************************************************************************)
(* The directory, pathlib, ensure_unique and plan_changes                  *)
(***************************************************************************)
\* str.casefold(), which is str.lower() on the characters of the model
Casefold(s) == Lower(s)

\* Path.exists(): the look-up folds case on a case-insensitive file system
Exists(name) ==
    \E e \in fs : IF caseInsensitive THEN Casefold(e[1]) = Casefold(name) ELSE e[1] = name

\* name.rfind('.') as a 1-based position, 0 if there is no dot
RFindDot(name) ==
    IF \E i \in 1..Len(name) : name[i] = "."
    THEN CHOOSE i \in 1..Len(name) :
            name[i] = "." /\ \A j \in (i + 1)..Len(name) : name[j] # "."
    ELSE 0

\* Path.suffix: from the last dot on, unless that dot is the first or the last character
PathSuffix(name) ==
    IF 1 < RFindDot(name) /\ RFindDot(name) < Len(name)
    THEN Slice(name, RFindDot(name), Len(name)) ELSE << >>

\* Path.stem
PathStem(name) ==
    IF 1 < RFindDot(name) /\ RFindDot(name) < Len(name)
    THEN Slice(name, 1, RFindDot(name) - 1) ELSE name

RECURSIVE UniqueFrom(_, _)
\* the while loop of ensure_unique with the counter at i
UniqueFrom(target, i) ==
    ByValue(PathStem(target) \o <<" ", "(">> \o StrOfNat(i) \o <<")">> \o PathSuffix(target),
            LAMBDA cand : IF ~Exists(cand) THEN cand ELSE UniqueFrom(target, i + 1))

ensure_unique(target) ==
    ByValue(target, LAMBDA t : IF ~Exists(t) THEN t ELSE UniqueFrom(t, 2))

\* the body of the for loop of plan_changes on the entry p: the list plans afterwards
PlanEntry(p, ps) ==
    IF p[2] # "file" THEN ps
    ELSE ByValue(build_new_name(PathStem(p[1])), LAMBDA new_base :
         IF new_base = None THEN ps
         ELSE IF new_base.val = PathStem(p[1]) THEN ps
         ELSE ByValue(ensure_unique(new_base.val \o PathSuffix(p[1])), LAMBDA new_path :
              IF Casefold(new_path) = Casefold(p[1]) THEN ps
              ELSE IF new_path # p[1] THEN Append(ps, <<p[1], new_path>>)
              ELSE ps))

(***************************************************************************)
(* Directories the runs start from                                         *)
(***************************************************************************)
MaxFiles == 2

\* the entries a directory is made of, as <<name, kind>>
NamePool ==
    { <<<<"p", "6", "0", "DI", "3", "DIAN", ".", "j">>, "file">>,
      <<<<"P", "6", "0", " ", "DI", "SAN", "GE", "DIAN", ".", "j">>, "file">>,
      <<<<"4", "-", "1", "_", "HUA", "WEI", "p", "6", "0", "_", "DI", "SAN", "GE", "DIAN", ".", "j">>, "file">>,
      <<<<"4", "-", "1", "_", "HUA", "WEI", "P", "6", "0", "_", "DI", "SAN", "GE", "DIAN", ".", "j">>, "file">>,
      <<<<"4", "-", "1", "_", "HUA", "WEI", "p", "6", "0", "_", "DI", "SAN", "GE", "DIAN", " ", "(", "2", ")", ".", "j">>, "file">>,
      <<<<"b", "DI", "2", "DIAN">>, "file">>,
      <<<<"n", "o", "t", "e", "s", ".", "t", "x", "t">>, "file">>,
      <<<<"b", "_", "DI", "ER", "GE", "DIAN">>, "dir">> }

\* no two entries of a directory have the same name (the same name up to
\* case when the file system folds case)
Distinct(d, ci) ==
    \A e1, e2 \in d :
        e1 # e2 => IF ci THEN Casefold(e1[1]) # Casefold(e2[1]) ELSE e1[1] # e2[1]

Dirs(ci) == {d \in SUBSET NamePool : Cardinality(d) <= MaxFiles /\ Distinct(d, ci)}

(***************************************************************************)
(* The program: import of the module, then main()                          *)
(***************************************************************************)
Init ==
    /\ pc = "import"
    /\ MODEL_TO_GROUP = {}
    /\ NORMALIZED_MODEL_TO_GROUP = << >>
    /\ GROUP_TO_CANONICAL_MODEL = {}
    /\ gi = 0
    /\ caseInsensitive \in BOOLEAN
    /\ fs \in Dirs(caseInsensitive)
    /\ todo = {}
    /\ plans = << >>
    /\ k = 0
    /\ count = 0
    /\ outcomes = << >>
    /\ run = 1
    /\ prev = None
    /\ arg = << >>
    /\ ret = << >>

\* line 106, lines 69-71: init_group_index() is called when the module is loaded
InitStart ==
    /\ pc = "import"
    /\ MODEL_TO_GROUP' = EmptyIndex.m2g
    /\ NORMALIZED_MODEL_TO_GROUP' = EmptyIndex.n2g
    /\ GROUP_TO_CANONICAL_MODEL' = EmptyIndex.g2c
    /\ gi' = 1
    /\ pc' = "init"
    /\ UNCHANGED <<callVars, mainVars>>

\* lines 72-81: one iteration of the loop over the groups
InitGroup ==
    /\ pc = "init"
    /\ gi <= Len(PHONE_GROUPS)
    /\ LET idx == GroupStep([m2g |-> MODEL_TO_GROUP, n2g |-> NORMALIZED_MODEL_TO_GROUP,
                             g2c |-> GROUP_TO_CANONICAL_MODEL], gi)
       IN  /\ MODEL_TO_GROUP' = idx.m2g
           /\ NORMALIZED_MODEL_TO_GROUP' = idx.n2g
           /\ GROUP_TO_CANONICAL_MODEL' = idx.g2c
    /\ gi' = gi + 1
    /\ UNCHANGED <<pc, callVars, mainVars>>

\* the loop is over and init_group_index() returns: the module is loaded
InitDone ==
    /\ pc = "init"
    /\ gi > Len(PHONE_GROUPS)
    /\ pc' = "loaded"
    /\ UNCHANGED <<indexVars, callVars, mainVars>>

\* lines 298-299, 264-269, 238-239: main is called and starts plan_changes, which
\* lists the directory
StartPlan ==
    /\ pc = "loaded"
    /\ todo' = fs
    /\ plans' = << >>
    /\ pc' = "plan"
    /\ UNCHANGED <<indexVars, callVars, fs, caseInsensitive, k, count, outcomes, run, prev>>

\* lines 240-253: one iteration of the loop, on whichever entry the listing yields next
PlanFile ==
    /\ pc = "plan"
    /\ \E p \in todo :
        /\ todo' = todo \ {p}
        /\ plans' = PlanEntry(p, plans)
    /\ UNCHANGED <<pc, indexVars, callVars, fs, caseInsensitive, k, count, outcomes, run, prev>>

\* lines 254, 270-272: the plan is returned; an empty plan ends the run
PlanDone ==
    /\ pc = "plan"
    /\ todo = {}
    /\ pc' = IF plans = << >> THEN "done" ELSE "confirm"
    /\ UNCHANGED <<indexVars, callVars, mainVars>>

\* lines 274-288: the preview, then --apply or the user's answer
Confirm ==
    /\ pc = "confirm"
    /\ \E yes \in BOOLEAN :
        IF yes THEN pc' = "apply" /\ k' = 1 /\ count' = 0
               ELSE pc' = "done" /\ UNCHANGED <<k, count>>
    /\ UNCHANGED <<indexVars, callVars, fs, caseInsensitive, todo, plans, outcomes, run, prev>>

\* the directory after src.rename(dst) went through: dst replaces what was there
Renamed(src, dst) ==
    {e \in fs : e[1] # src
                /\ IF caseInsensitive THEN Casefold(e[1]) # Casefold(dst) ELSE e[1] # dst}
        \cup {<<dst, "file">>}

\* Rename with the try around the whole loop: a rename that raises ends the batch
RenameAborts ==
    /\ pc = "apply"
    /\ k <= Len(plans)
    /\ \/ /\ <<plans[k][1], "file">> \in fs
          /\ fs' = Renamed(plans[k][1], plans[k][2])
          /\ count' = count + 1
          /\ outcomes' = Append(outcomes, "ok")
          /\ pc' = pc
       \/ /\ outcomes' = Append(outcomes, "failed")
          /\ pc' = "done"
          /\ UNCHANGED <<fs, count>>
    /\ k' = k + 1
    /\ UNCHANGED <<indexVars, callVars, caseInsensitive, todo, plans, run, prev>>

\* lines 289-295: one iteration of the apply loop; the rename goes through or raises
Rename ==
    /\ pc = "apply"
    /\ k <= Len(plans)
    /\ \/ /\ <<plans[k][1], "file">> \in fs
          /\ fs' = Renamed(plans[k][1], plans[k][2])
          /\ count' = count + 1
          /\ outcomes' = Append(outcomes, "ok")
       \/ /\ outcomes' = Append(outcomes, "failed")
          /\ UNCHANGED <<fs, count>>
    /\ k' = k + 1
    /\ UNCHANGED <<pc, indexVars, callVars, caseInsensitive, todo, plans, run, prev>>

\* line 296: the loop is over and the count is printed
ApplyDone ==
    /\ pc = "apply"
    /\ k > Len(plans)
    /\ pc' = "done"
    /\ UNCHANGED <<indexVars, callVars, mainVars>>

\* the program is started a second time on the directory the first run left
Rerun ==
    /\ pc = "done"
    /\ run = 1
    /\ run' = 2
    /\ prev' = Some([plans |-> plans, outcomes |-> outcomes])
    /\ pc' = "import"
    /\ MODEL_TO_GROUP' = {}
    /\ NORMALIZED_MODEL_TO_GROUP' = << >>
    /\ GROUP_TO_CANONICAL_MODEL' = {}
    /\ gi' = 0
    /\ todo' = {}
    /\ plans' = << >>
    /\ k' = 0
    /\ count' = 0
    /\ outcomes' = << >>
    /\ UNCHANGED <<callVars, fs, caseInsensitive>>

Next ==
    \/ InitStart
    \/ InitGroup
    \/ InitDone
    \/ StartPlan
    \/ PlanFile
    \/ PlanDone
    \/ Confirm
    \/ Rename
    \/ ApplyDone
    \/ Rerun

Spec == Init /\ [][Next]_vars

(***************************************************************************)
(* Calls of the functions of the loaded module on inputs of bounded sets   *)
(***************************************************************************)
\* the module about to be loaded by a caller of its functions
InitCall ==
    /\ pc = "import"
    /\ MODEL_TO_GROUP = {}
    /\ NORMALIZED_MODEL_TO_GROUP = << >>
    /\ GROUP_TO_CANONICAL_MODEL = {}
    /\ gi = 0
    /\ arg = << >>
    /\ ret = << >>
    /\ fs = {}
    /\ caseInsensitive = FALSE
    /\ todo = {}
    /\ plans = << >>
    /\ k = 0
    /\ count = 0
    /\ outcomes = << >>
    /\ run = 1
    /\ prev = None

\* the first call, on the argument a
Call(a, v, next) ==
    /\ pc = "loaded"
    /\ arg' = a
    /\ ret' = <<v>>
    /\ pc' = next
    /\ UNCHANGED <<indexVars, mainVars>>

\* a further call: ret collects the values returned by the successive calls
Return(v, next) ==
    /\ ret' = Append(ret, v)
    /\ pc' = next
    /\ UNCHANGED <<indexVars, arg, mainVars>>

\* ---- int2cn, then cn2int on its result ----
MaxNum == 1100

CallInt2cn == \E n \in 0..MaxNum : Call(n, int2cn(n), "returned")

CallCn2int == pc = "returned" /\ Return(cn2int(ret[1]), "done")

NextNumeral == InitStart \/ InitGroup \/ InitDone \/ CallInt2cn \/ CallCn2int

SpecNumeral == InitCall /\ [][NextNumeral]_vars

\* ---- sanitize_component ----
MaxLen == 3

SanitizeAlphabet == {"a", " ", "\t", "-", "_", "EMDASH", ".", "<", "?"}

Texts(alphabet, n) == UNION {[1..m -> alphabet] : m \in 0..n}

CallSanitize ==
    \E text \in Texts(SanitizeAlphabet, MaxLen) : Call(text, sanitize_component(text), "done")

NextSanitize == InitStart \/ InitGroup \/ InitDone \/ CallSanitize

SpecSanitize == InitCall /\ [][NextSanitize]_vars

\* ---- find_group_for_model ----
\* what is written before the model
FindBefore ==
    { <<>>,
      <<"x">>,
      <<"1", "-", "3", "_">>,
      <<"M", "y", " ">> }
\* spellings of a model, whole or in part
FindCore ==
    { <<>>,
      <<"o", "p", "p", "o", " ", "f", "i", "n", "d", " ", "x", "8">>,
      <<"O", "P", "P", "O", " ", "F", "i", "n", "d", "-", "X", "8", " ", "P", "r", "o">>,
      <<"f", "i", "n", "d", "x", "8", "p", "r", "o">>,
      <<"x", "8">>,
      <<"v", "i", "v", "o", "x">>,
      <<"0", "0", "p", "r", "o">>,
      <<"h", "o", "n", "o", "r", " ", "m", "a", "g", "i", "c">>,
      <<"m", "a", "g", "i", "c", "6">>,
      <<"X", "i", "a", "o", "m", "i", "_", "1", "5">>,
      <<"XIAO", "MI", "1", "5">>,
      <<"p", "6", "0">>,
      <<"HUA", "WEI", "P", "6", "0">>,
      <<"n", "o", "v", "a", "1", "4">>,
      <<"m", "a", "t", "e">>,
      <<"q">>,
      <<"WEI_N", "ZHI", "JI", "XING_T">> }
\* what is written after the model
FindAfter ==
    { <<>>,
      <<" ", "p", "r", "o">>,
      <<" ", "m", "a", "x">>,
      <<"s">> }
FindInputs == {b \o c \o a : b \in FindBefore, c \in FindCore, a \in FindAfter}

CallFind == \E text \in FindInputs : Call(text, find_group_for_model(text), "done")

NextFind == InitStart \/ InitGroup \/ InitDone \/ CallFind

SpecFind == InitCall /\ [][NextFind]_vars

\* ---- build_new_name, then build_new_name on its result ----
\* noise and a separator before the model
StemPrefix ==
    { <<>>,
      <<"I", "M", "G", "_", "-", "-", "-">>,
      <<"x", "EMDASH", " ">> }
\* the model as written in the file name
StemModel ==
    { <<"XIAO", "MI", "1", "5">>,
      <<"X", "i", "a", "o", "M", "i", " ", "1", "5">>,
      <<"p", "6", "0">>,
      <<"o", "p", "p", "o", " ", "f", "i", "n", "d", " ", "x", "8", " ", "p", "r", "o", " ", "m", "a", "x">>,
      <<"WEI_N", "ZHI", "JI", "XING_T">>,
      <<"b">>,
      <<"a", "<", ">", "b">>,
      <<"b", "-", ".">>,
      <<"b", ".">>,
      <<"-">>,
      <<>> }
\* the marker with the numeral
StemMarker ==
    { <<"DI", "3", "GE", "DIAN">>,
      <<" ", "DI", " ", "SAN", " ", "DIAN", "WEI_P">>,
      <<"DI", "SHI", "ER", "GE", "DIAN">>,
      <<"DI", "1", "0", "0", "0", "DIAN">>,
      <<"DI", "ER_F", "BAI_F", "LING", "WU_F", " ", "GE", " ", "DIAN">>,
      <<"DI", "SAN", "3", "GE", "DIAN">>,
      <<"DI", "0", "0", "0", "7", "DIAN">>,
      <<"DIAN">> }
\* what follows the marker
StemTrail ==
    { <<>>,
      <<"(", "1", ")">>,
      <<" ", "(", "2", ")">> }
Stems ==
    {p \o m \o n \o t : p \in StemPrefix, m \in StemModel, n \in StemMarker, t \in StemTrail}

CallBuild == \E stem \in Stems : Call(stem, build_new_name(stem), "returned")

CallBuildAgain ==
    /\ pc = "returned"
    /\ ret[1] # None
    /\ Return(build_new_name(ret[1].val), "done")

NextBuild == InitStart \/ InitGroup \/ InitDone \/ CallBuild \/ CallBuildAgain

SpecBuild == InitCall /\ [][NextBuild]_vars

(***************************************************************************)
(* Properties                                                              *)
(***************************************************************************)
\* C1: while a plan is being built and when it is returned, the destination of
\* every entry does not exist in the directory and differs from the destination
\* of every other entry of the plan.
C1_DestinationsFreshAndDistinct ==
    pc \in {"plan", "confirm"} =>
        \A i \in 1..Len(plans) :
            /\ ~Exists(plans[i][2])
            /\ \A j \in 1..Len(plans) : j # i => plans[j][2] # plans[i][2]

\* C2: for 0 <= n < 1000, cn2int(int2cn(n)) returns n.
C2_RoundTrip == (pc = "done" /\ arg < 1000) => ret[2] = Some(arg)

\* 110 is rendered without filler and with the one before SHI left out
C2_Witness ==
    pc = "done" /\ arg = 110 /\ ret = <<<<"YI", "BAI", "SHI">>, Some(110)>>

\* the name plan_changes computes for the entry src before ensure_unique
ComputedName(src) == build_new_name(PathStem(src)).val \o PathSuffix(src)

\* C3: a file whose computed new name equals its current name up to case gets
\* no plan entry, whether or not the file system folds case.
C3_CaseOnlyChangeSkipped ==
    \A i \in 1..Len(plans) :
        build_new_name(PathStem(plans[i][1])) # None
            => Casefold(ComputedName(plans[i][1])) # Casefold(plans[i][1])

\* the positions of the entries of the normalized map that contain the key or
\* are contained in it
Qualifying(key) ==
    {i \in 1..Len(NORMALIZED_MODEL_TO_GROUP) :
        \/ Contains(key, NORMALIZED_MODEL_TO_GROUP[i][1])
        \/ Contains(NORMALIZED_MODEL_TO_GROUP[i][1], key)}

EntryAt(i) == <<Some(NORMALIZED_MODEL_TO_GROUP[i][2]), Some(NORMALIZED_MODEL_TO_GROUP[i][3])>>

\* C4: find_group_for_model returns the entry stored under the normalized key
\* if there is one; otherwise the qualifying entry with the longest key, the
\* first in insertion order among the longest; (None, None) if none qualifies.
C4_FindGroup ==
    pc = "done" =>
        LET key == normalize_model_key(arg)
            Q   == Qualifying(key)
        IN  IF \E i \in 1..Len(NORMALIZED_MODEL_TO_GROUP) : NORMALIZED_MODEL_TO_GROUP[i][1] = key
            THEN \E i \in 1..Len(NORMALIZED_MODEL_TO_GROUP) :
                    NORMALIZED_MODEL_TO_GROUP[i][1] = key /\ ret[1] = EntryAt(i)
            ELSE IF Q = {} THEN ret[1] = <<None, None>>
            ELSE \E i \in Q :
                    /\ ret[1] = EntryAt(i)
                    /\ \A j \in Q :
                        /\ Len(NORMALIZED_MODEL_TO_GROUP[j][1]) <= Len(NORMALIZED_MODEL_TO_GROUP[i][1])
                        /\ Len(NORMALIZED_MODEL_TO_GROUP[j][1]) = Len(NORMALIZED_MODEL_TO_GROUP[i][1])
                              => i <= j

\* "vivox" is no key; vivox200pro (2-1) and vivox100pro (5-4) are the longest
\* keys that contain it, and the one inserted first is returned
C4_Witness ==
    /\ pc = "done"
    /\ arg = <<"v", "i", "v", "o", "x">>
    /\ ret[1] = <<Some(<<"2", "-", "1">>), Some(<<"v", "i", "v", "o", "x", "2", "0", "0", "p", "r", "o">>)>>
    /\ \E i, j \in Qualifying(<<"v", "i", "v", "o", "x">>) :
        /\ i < j
        /\ NORMALIZED_MODEL_TO_GROUP[i][2] # NORMALIZED_MODEL_TO_GROUP[j][2]
        /\ Len(NORMALIZED_MODEL_TO_GROUP[i][1]) = Len(NORMALIZED_MODEL_TO_GROUP[j][1])
        /\ \A n \in Qualifying(<<"v", "i", "v", "o", "x">>) :
            Len(NORMALIZED_MODEL_TO_GROUP[n][1]) <= Len(NORMALIZED_MODEL_TO_GROUP[i][1])

\* the first alias listed under the group g in PHONE_GROUPS
FirstAlias(g) == PHONE_GROUPS[CHOOSE i \in 1..Len(PHONE_GROUPS) : PHONE_GROUPS[i][1] = g][2][1]

\* the value the claim C5 gives for the stem
ExpectedName(stem) ==
    ByValue(PATTERN_search(stem), LAMBDA m :
        IF m = None THEN None
        ELSE ByValue(sanitize_component(Strip(m.val.model)), LAMBDA model :
             ByValue(cn2int(Strip(m.val.num)), LAMBDA n :
             ByValue(find_group_for_model(model)[1], LAMBDA g :
                IF model = << >> \/ n = None THEN None
                ELSE Some((IF g # None
                           THEN g.val \o <<"_">> \o sanitize_component(FirstAlias(g.val))
                           ELSE model)
                          \o <<"_", "DI">> \o int2cn(n.val) \o <<"GE", "DIAN">>)))))

\* C5: build_new_name returns prefix + finalModel + "_DI" + numeral + "GE DIAN",
\* with the group and the sanitized first alias of the group when one is found
\* and the sanitized extracted model otherwise; it returns None when the pattern
\* does not match, the sanitized model is empty or the numeral does not convert.
C5_BuildNewName == pc \in {"returned", "done"} => ret[1] = ExpectedName(arg)

\* "XiaoMi 15" is found in group 1-1 and is written as the first alias of 1-1
C5_Witness ==
    /\ pc = "returned"
    /\ arg = <<"I", "M", "G", "_", "-", "-", "-", "X", "i", "a", "o", "M", "i", " ", "1", "5", " ", "DI", " ", "SAN", " ", "DIAN", "WEI_P", "(", "1", ")">>
    /\ ret[1] = Some(<<"1", "-", "1", "_", "XIAO", "MI", "1", "5", "_", "DI", "SAN", "GE", "DIAN">>)

\* C6: once init_group_index has run, every alias a of every group g is sent to
\* g by the exact map, its normalized key is in the normalized map with an entry
\* of group g, and find_group_for_model(a) returns g.
C6_IndexCoversTable ==
    pc \notin {"import", "init"} =>
        \A i \in 1..Len(PHONE_GROUPS) :
            \A j \in 1..Len(PHONE_GROUPS[i][2]) :
                LET g == PHONE_GROUPS[i][1]
                    a == PHONE_GROUPS[i][2][j]
                    n == KeyPos(NORMALIZED_MODEL_TO_GROUP, normalize_model_key(a))
                IN  /\ InDict(MODEL_TO_GROUP, a)
                    /\ Get(MODEL_TO_GROUP, a) = g
                    /\ n # 0
                    /\ NORMALIZED_MODEL_TO_GROUP[n][2] = g
                    /\ find_group_for_model(a)[1] = Some(g)

\* the module is loaded; "vivo iqoo13" and "vivoiqoo13" have the same key and
\* the entry under it holds the later of the two
C6_Witness ==
    /\ pc = "loaded"
    /\ normalize_model_key(<<"v", "i", "v", "o", " ", "i", "q", "o", "o", "1", "3">>) = normalize_model_key(<<"v", "i", "v", "o", "i", "q", "o", "o", "1", "3">>)
    /\ KeyPos(NORMALIZED_MODEL_TO_GROUP, <<"v", "i", "v", "o", "i", "q", "o", "o", "1", "3">>) # 0
    /\ NORMALIZED_MODEL_TO_GROUP[KeyPos(NORMALIZED_MODEL_TO_GROUP, <<"v", "i", "v", "o", "i", "q", "o", "o", "1", "3">>)]
          = <<<<"v", "i", "v", "o", "i", "q", "o", "o", "1", "3">>, <<"1", "-", "4">>, <<"v", "i", "v", "o", "i", "q", "o", "o", "1", "3">>>>

\* the number of renames that went through
Succeeded(os) == Cardinality({i \in 1..Len(os) : os[i] = "ok"})

\* C7: in the apply phase the entries are attempted one after the other in plan
\* order whatever the earlier outcomes, a renamed file stays renamed, the count
\* is the number of renames that did not raise, and the phase ends only when
\* every entry was attempted.
C7_ApplyNeverAborts ==
    (pc \in {"apply", "done"} /\ k > 0) =>
        /\ Len(outcomes) = k - 1
        /\ k <= Len(plans) + 1
        /\ count = Succeeded(outcomes)
        /\ \A i \in 1..Len(outcomes) :
            outcomes[i] = "ok" => Exists(plans[i][2]) /\ ~Exists(plans[i][1])
        /\ pc = "done" => Len(outcomes) = Len(plans)

\* the first rename raised, the second went through and was counted
C7_Witness ==
    /\ pc = "done"
    /\ outcomes = <<"failed", "ok">>
    /\ count = 1
    /\ Exists(plans[2][2])
    /\ Exists(plans[1][1])

\* C8: the result of sanitize_component has no illegal character and no run of
\* white space, neither begins nor ends with white space or a connector, does
\* not end with a period, and is empty for the empty text.
C8_SanitizedIsClean ==
    pc = "done" =>
        /\ \A i \in 1..Len(ret[1]) : ret[1][i] \notin INVALID_CHARS
        /\ \A i \in 1..(Len(ret[1]) - 1) : ~(IsSpace(ret[1][i]) /\ IsSpace(ret[1][i + 1]))
        /\ ret[1] # << >> =>
            /\ ~IsConnector(ret[1][1])
            /\ ~IsConnector(ret[1][Len(ret[1])])
            /\ ret[1][Len(ret[1])] # "."
        /\ arg = << >> => ret[1] = << >>

\* C9: build_new_name applied to a name it returned returns that name.
C9_Idempotent == pc = "done" => ret[2] = ret[1]

\* the first run planned, attempted every entry and every rename went through
FirstRunClean ==
    /\ prev # None
    /\ Len(prev.val.outcomes) = Len(prev.val.plans)
    /\ \A i \in 1..Len(prev.val.outcomes) : prev.val.outcomes[i] = "ok"

\* C10: after a run whose planned renames were all applied, the plan of a
\* second run on the directory is empty.
C10_SecondPlanEmpty == (run = 2 /\ FirstRunClean) => plans = << >>

====
